---------------------------- MODULE Spec2Model ----------------------------
(***************************************************************************)
(* A model of parts_scraper.py: the adaptive extraction engine of a        *)
(* catalog scraper.  Text is a sequence of tokens (a token is a run of     *)
(* non-blank characters or the single blank " "), markup is a tree of      *)
(* nodes, and a URL is the sequence of its tokens, scheme first.           *)
(***************************************************************************)
EXTENDS Integers, Sequences, FiniteSets, TLC

VARIABLES
    pc,          \* position of the running function
    arg,         \* the arguments of the pure function under check
    ret,         \* its return value
    step,        \* extract_detail_specs: the writes the loops have still to make
    specs,       \* extract_detail_specs: the mapping being built
    html,        \* scrape_category: what the listing fetch returned
    cards,       \* scrape_category: what find_product_cards returned
    rows,        \* scrape_category: the candidates
    idx,         \* scrape_category: index of the candidate being processed
    detail_soup, \* scrape_category: what the current detail fetch returned
    results,     \* scrape_category: the records appended so far
    returned,    \* scrape_category: the returned list
    log          \* scrape_category: calls made so far, in order

vars == <<pc, arg, ret, step, specs, html, cards, rows, idx, detail_soup,
          results, returned, log>>

pureVars == <<arg, ret, step, specs>>
orchVars == <<html, cards, rows, idx, detail_soup, results, returned, log>>

----------------------------------------------------------------------------
(* Bounds of the model.                                                    *)

MaxLocators == 2
MaxKids == 2
MaxItems == 3
MaxScripts == 2
MaxRows == 2
MaxCards == 2

----------------------------------------------------------------------------
(* Generic helpers.                                                        *)

SeqsUpTo(S, n) == UNION {[1..k -> S] : k \in 0..n}

RECURSIVE Concat(_)
Concat(ss) == IF ss = <<>> THEN <<>> ELSE Head(ss) \o Concat(Tail(ss))

RECURSIVE JoinWith(_, _)
JoinWith(sep, ss) ==
    IF ss = <<>> THEN <<>>
    ELSE IF Len(ss) = 1 THEN ss[1]
    ELSE ss[1] \o sep \o JoinWith(sep, Tail(ss))

NonEmpty(ss) == SelectSeq(ss, LAMBDA s : s # <<>>)

----------------------------------------------------------------------------
(* Python's str methods on token sequences.                                *)

RECURSIVE LStrip(_)
LStrip(s) == IF s # <<>> /\ Head(s) = " " THEN LStrip(Tail(s)) ELSE s

RECURSIVE RStrip(_)
RStrip(s) ==
    IF s # <<>> /\ s[Len(s)] = " " THEN RStrip(SubSeq(s, 1, Len(s) - 1)) ELSE s

Strip(s) == RStrip(LStrip(s))

RECURSIVE WordLen(_)
WordLen(s) == IF s = <<>> \/ Head(s) = " " THEN 0 ELSE 1 + WordLen(Tail(s))

RECURSIVE SplitWs(_)
SplitWs(s) ==
    IF s = <<>> THEN <<>>
    ELSE IF Head(s) = " " THEN SplitWs(Tail(s))
    ELSE <<SubSeq(s, 1, WordLen(s))>> \o SplitWs(SubSeq(s, WordLen(s) + 1, Len(s)))

----------------------------------------------------------------------------
(* Markup.  A node is [tag, cls, attrs, text, kids]: cls is the set of its *)
(* classes, attrs the set of its [k, v] attributes, text its own text and  *)
(* kids the sequence of its child nodes.                                   *)

Node(tag, cls, attrs, text, kids) ==
    [tag |-> tag, cls |-> cls, attrs |-> attrs, text |-> text, kids |-> kids]

has_attr(n, a) == \E p \in n.attrs : p.k = a

get_attr(n, a, default) ==
    IF has_attr(n, a) THEN (CHOOSE p \in n.attrs : p.k = a).v ELSE default

RECURSIVE Strings(_)
Strings(n) ==
    <<n.text>> \o Concat([i \in 1..Len(n.kids) |-> Strings(n.kids[i])])

strip_each(ss) == [i \in 1..Len(ss) |-> Strip(ss[i])]

(* node.get_text(" ", strip=True)                                           *)
get_text(n) == JoinWith(<<" ">>, NonEmpty(strip_each(Strings(n))))

(* The descendants of a node in document order, each with its ancestors    *)
(* (outermost first); the node itself is not one of them.                  *)
RECURSIVE Descendants(_, _)
Descendants(n, anc) ==
    Concat([i \in 1..Len(n.kids) |->
        <<[n |-> n.kids[i], anc |-> Append(anc, n)]>>
        \o Descendants(n.kids[i], Append(anc, n))])

(* Substrings the selectors and the link harvest look for.                 *)
Contains(tok, sub) ==
    CASE sub = "sku"     -> tok \in {"sku", "sku-item", "sku-code"}
      [] sub = "price"   -> tok \in {"price", "product-price", "goods-price", "sale-price"}
      [] sub = "product" -> tok \in {"product", "products", "product-link"}
      [] sub = "item"    -> tok \in {"item", "items", "product-item", "goods-item",
                                     "sku-item", "list-item", "item-code"}
      [] sub = "detail"  -> tok \in {"detail", "details"}
      [] sub = "goods"   -> tok \in {"goods", "goods-item", "goods-link"}
      [] sub = "json"    -> tok \in {"json", "application/json", "application/ld+json"}
      [] OTHER           -> tok = sub

SeqContains(s, sub) == \E i \in 1..Len(s) : Contains(s[i], sub)

(* A CSS selector, parsed: tag and cls ("" for any), attr the attribute    *)
(* that must be present ("class" for the class list), sub the substring    *)
(* its value must contain, under the ancestor class or tag.                *)
Sel(tag, cls, attr, sub, under) ==
    [tag |-> tag, cls |-> cls, attr |-> attr, sub |-> sub, under |-> under]

Selector(s) ==
    CASE s = ".product-item"      -> Sel("", "product-item", "", "", "")
      [] s = ".goods-item"        -> Sel("", "goods-item", "", "", "")
      [] s = ".sku-item"          -> Sel("", "sku-item", "", "", "")
      [] s = ".list-item"         -> Sel("", "list-item", "", "", "")
      [] s = ".product-list li"   -> Sel("li", "", "", "", ".product-list")
      [] s = ".goods-list li"     -> Sel("li", "", "", "", ".goods-list")
      [] s = "li[data-sku]"       -> Sel("li", "", "data-sku", "", "")
      [] s = "div[data-sku]"      -> Sel("div", "", "data-sku", "", "")
      [] s = "article"            -> Sel("article", "", "", "", "")
      [] s = "a[href]"            -> Sel("a", "", "href", "", "")
      [] s = ".product-name"      -> Sel("", "product-name", "", "", "")
      [] s = ".goods-name"        -> Sel("", "goods-name", "", "", "")
      [] s = ".title"             -> Sel("", "title", "", "", "")
      [] s = "h3"                 -> Sel("h3", "", "", "", "")
      [] s = "h2"                 -> Sel("h2", "", "", "", "")
      [] s = "a[title]"           -> Sel("a", "", "title", "", "")
      [] s = "a"                  -> Sel("a", "", "", "", "")
      [] s = ".product-model"     -> Sel("", "product-model", "", "", "")
      [] s = ".sku"               -> Sel("", "sku", "", "", "")
      [] s = ".model"             -> Sel("", "model", "", "", "")
      [] s = ".item-code"         -> Sel("", "item-code", "", "", "")
      [] s = ".code"              -> Sel("", "code", "", "", "")
      [] s = "[data-sku]"         -> Sel("", "", "data-sku", "", "")
      [] s = "[class*='sku']"     -> Sel("", "", "class", "sku", "")
      [] s = ".description"       -> Sel("", "description", "", "", "")
      [] s = ".desc"              -> Sel("", "desc", "", "", "")
      [] s = ".product-desc"      -> Sel("", "product-desc", "", "", "")
      [] s = ".sub-title"         -> Sel("", "sub-title", "", "", "")
      [] s = "p"                  -> Sel("p", "", "", "", "")
      [] s = ".price"             -> Sel("", "price", "", "", "")
      [] s = ".product-price"     -> Sel("", "product-price", "", "", "")
      [] s = ".goods-price"       -> Sel("", "goods-price", "", "", "")
      [] s = "[class*='price']"   -> Sel("", "", "class", "price", "")
      [] s = "a.product-link"     -> Sel("a", "product-link", "", "", "")
      [] s = "a.goods-link"       -> Sel("a", "goods-link", "", "", "")
      [] s = "a[href*='product']" -> Sel("a", "", "href", "product", "")
      [] s = "a[href*='item']"    -> Sel("a", "", "href", "item", "")
      [] s = "a[href*='detail']"  -> Sel("a", "", "href", "detail", "")
      [] s = "table tr"           -> Sel("tr", "", "", "", "table")
      [] s = "dl"                 -> Sel("dl", "", "", "", "")
      [] s = ".spec li"           -> Sel("li", "", "", "", ".spec")
      [] s = ".specs li"          -> Sel("li", "", "", "", ".specs")
      [] s = ".product-spec li"   -> Sel("li", "", "", "", ".product-spec")
      [] s = ".param li"          -> Sel("li", "", "", "", ".param")
      [] s = "script"             -> Sel("script", "", "", "", "")

IsUnder(a, under) ==
    \/ \E c \in a.cls : under = "." \o c
    \/ a.tag = under

matches_parsed(d, q) ==
    /\ q.tag = "" \/ d.n.tag = q.tag
    /\ q.cls = "" \/ q.cls \in d.n.cls
    /\ \/ q.attr = ""
       \/ /\ q.attr = "class"
          /\ \E c \in d.n.cls : Contains(c, q.sub)
       \/ /\ q.attr # "class"
          /\ has_attr(d.n, q.attr)
          /\ q.sub = "" \/ SeqContains(get_attr(d.n, q.attr, <<>>), q.sub)
    /\ q.under = "" \/ \E i \in 1..Len(d.anc) : IsUnder(d.anc[i], q.under)

Matches(d, s) == matches_parsed(d, Selector(s))

(* soup.select(s): the descendants matching s, in document order.          *)
select(n, s) == SelectSeq(Descendants(n, <<>>), LAMBDA d : Matches(d, s))

None == [tag |-> "None"]

(* element.select_one(s): the first match or None.                         *)
first_or_none(found) == IF found = <<>> THEN None ELSE found[1].n

select_one(n, s) == first_or_none(select(n, s))

----------------------------------------------------------------------------
(* The Field Matcher.                                                      *)

(* " ".join(node.get_text(" ", strip=True).split()) of a matched node.     *)
normalized_text(node) ==
    IF node = None THEN <<>> ELSE JoinWith(<<" ">>, SplitWs(get_text(node)))

text_or_else(text, other) == IF text # <<>> THEN text ELSE other

(* str(node.get(attr, "")).strip() of a matched node that has the attr.    *)
stripped_attr(node, attr) ==
    IF node = None THEN <<>>
    ELSE IF ~has_attr(node, attr) THEN <<>>
    ELSE Strip(get_attr(node, attr, <<>>))

(* A matcher in which a later locator's value replaces an earlier one's.   *)
RECURSIVE last_text(_, _)
last_text(element, selectors) ==
    IF selectors = <<>> THEN <<>>
    ELSE text_or_else(last_text(element, Tail(selectors)),
                      normalized_text(select_one(element, Head(selectors))))

RECURSIVE first_text(_, _)
text_or_next(text, element, selectors) ==
    IF text # <<>> THEN text ELSE first_text(element, selectors)

first_text(element, selectors) ==
    IF selectors = <<>> THEN <<>>
    ELSE text_or_next(normalized_text(select_one(element, Head(selectors))),
                      element, Tail(selectors))

RECURSIVE first_attr(_, _, _)
attr_or_next(value, element, selectors, attr) ==
    IF value # <<>> THEN value ELSE first_attr(element, selectors, attr)

first_attr(element, selectors, attr) ==
    IF selectors = <<>> THEN <<>>
    ELSE attr_or_next(stripped_attr(select_one(element, Head(selectors)), attr),
                      element, Tail(selectors), attr)

----------------------------------------------------------------------------
(* The Card Locator.                                                       *)

candidate_selectors ==
    << ".product-item", ".goods-item", ".sku-item", ".list-item",
       ".product-list li", ".goods-list li", "li[data-sku]", "div[data-sku]",
       "article" >>

(* any(token in href.lower() for token in ["/product", "/goods", "/item",  *)
(* "/sku", "/detail"]): a "/" followed by a segment that starts with one   *)
(* of the words.                                                           *)
StartsWithToken(tok) ==
    tok \in {"product", "products", "goods", "item", "items", "sku", "detail", "details"}

HasProductToken(href) ==
    \E i \in 1..(Len(href) - 1) : href[i] = "/" /\ StartsWithToken(href[i + 1])

nearest(d, hits) ==
    IF hits = {} THEN d.n ELSE d.anc[CHOOSE i \in hits : \A j \in hits : j <= i]

(* link.find_parent(["li", "div", "article"]) or link                      *)
find_parent_or_self(d) ==
    nearest(d, {i \in 1..Len(d.anc) : d.anc[i].tag \in {"li", "div", "article"}})

containers(links) == [i \in 1..Len(links) |-> find_parent_or_self(links[i])]

(* Lines 118-124.                                                          *)
fallback_cards(soup) ==
    containers(SelectSeq(select(soup, "a[href]"),
                         LAMBDA d : HasProductToken(get_attr(d.n, "href", <<>>))))

(* str(item)[:220]: markup within the bounds of the model is shorter than  *)
(* the prefix, so two cards have the same marker exactly when they have    *)
(* the same markup.                                                        *)
marker(item) == item

(* Lines 126-133.                                                          *)
RECURSIVE dedupe(_, _)
dedupe(items, seen) ==
    IF items = <<>> THEN <<>>
    ELSE IF marker(Head(items)) \in seen THEN dedupe(Tail(items), seen)
    ELSE <<Head(items)>> \o dedupe(Tail(items), seen \cup {marker(Head(items))})

tags_of(found) == [i \in 1..Len(found) |-> found[i].n]

(* A locator that merges the match sets of all the selectors.              *)
all_matching(soup, selectors) ==
    Concat([i \in 1..Len(selectors) |-> tags_of(select(soup, selectors[i]))])

(* Lines 113-116: the match set of the first selector that matches.        *)
RECURSIVE first_matching(_, _)
found_or_next(found, soup, selectors) ==
    IF found # <<>> THEN tags_of(found) ELSE first_matching(soup, selectors)

first_matching(soup, selectors) ==
    IF selectors = <<>> THEN <<>>
    ELSE found_or_next(select(soup, Head(selectors)), soup, Tail(selectors))

cards_or_fallback(matched, soup) ==
    IF matched # <<>> THEN matched ELSE dedupe(fallback_cards(soup), {})

find_product_cards(soup) ==
    cards_or_fallback(first_matching(soup, candidate_selectors), soup)

----------------------------------------------------------------------------
(* urllib.parse.urljoin on token sequences.  A URL is an optional scheme   *)
(* token, an optional "//" and host, and a path of segments separated by   *)
(* "/" tokens.                                                             *)

BASE_URL == <<"https:", "//", "www.zkh.com", "/">>

SchemeTokens == {"https:", "http:", "javascript:"}
uses_relative == {"https:", "http:"}

(* s.split(sep): the pieces of s between the sep tokens.                   *)
RECURSIVE PieceLen(_, _)
PieceLen(s, sep) == IF s = <<>> \/ Head(s) = sep THEN 0 ELSE 1 + PieceLen(Tail(s), sep)

RECURSIVE Split(_, _)
split_at(s, sep, n) ==
    IF n = Len(s) THEN <<s>>
    ELSE <<SubSeq(s, 1, n)>> \o Split(SubSeq(s, n + 2, Len(s)), sep)

Split(s, sep) == split_at(s, sep, PieceLen(s, sep))

HasScheme(url) == url # <<>> /\ url[1] \in SchemeTokens

parse_rest(scheme, rest) ==
    IF Len(rest) >= 2 /\ rest[1] = "//"
    THEN [scheme |-> scheme, netloc |-> rest[2], path |-> SubSeq(rest, 3, Len(rest))]
    ELSE [scheme |-> scheme, netloc |-> "", path |-> rest]

urlparse(url, scheme) ==
    IF HasScheme(url) THEN parse_rest(url[1], Tail(url)) ELSE parse_rest(scheme, url)

urlunparse(scheme, netloc, path) ==
    (IF scheme = "" THEN <<>> ELSE <<scheme>>)
    \o (IF netloc = "" THEN <<>> ELSE <<"//", netloc>>)
    \o (IF netloc # "" /\ path # <<>> /\ path[1] # "/" THEN <<"/">> ELSE <<>>)
    \o path

(* The base path without its last segment, unless that is empty.           *)
base_parts(bp) == IF bp[Len(bp)] # <<>> THEN SubSeq(bp, 1, Len(bp) - 1) ELSE bp

(* segments[1:-1] = filter(None, segments[1:-1])                            *)
filter_middle(joined) ==
    <<joined[1]>> \o NonEmpty(SubSeq(joined, 2, Len(joined) - 1)) \o <<joined[Len(joined)]>>

RECURSIVE resolve(_, _)
resolve(segments, resolved_path) ==
    IF segments = <<>> THEN resolved_path
    ELSE IF Head(segments) = <<"..">>
         THEN resolve(Tail(segments),
                      IF resolved_path = <<>> THEN <<>>
                      ELSE SubSeq(resolved_path, 1, Len(resolved_path) - 1))
    ELSE IF Head(segments) = <<".">> THEN resolve(Tail(segments), resolved_path)
    ELSE resolve(Tail(segments), Append(resolved_path, Head(segments)))

resolved(segments) ==
    resolve(segments, <<>>)
    \o (IF segments[Len(segments)] \in {<<".">>, <<"..">>} THEN << <<>> >> ELSE <<>>)

path_or_root(path) == IF path = <<>> THEN <<"/">> ELSE path

join_parsed(b, u, url) ==
    IF u.scheme # b.scheme \/ u.scheme \notin uses_relative THEN url
    ELSE IF u.netloc # "" THEN urlunparse(u.scheme, u.netloc, u.path)
    ELSE IF u.path = <<>> THEN urlunparse(u.scheme, b.netloc, b.path)
    ELSE urlunparse(u.scheme, b.netloc,
                    path_or_root(JoinWith(<<"/">>,
                        resolved(IF u.path[1] = "/" THEN Split(u.path, "/")
                                 ELSE filter_middle(base_parts(Split(b.path, "/"))
                                                    \o Split(u.path, "/"))))))

join_with_base(b, url) == join_parsed(b, urlparse(url, b.scheme), url)

(* A resolver that leaves the link as it was found.                        *)
unresolved(base, url) == url

urljoin(base, url) ==
    IF base = <<>> THEN url
    ELSE IF url = <<>> THEN base
    ELSE join_with_base(urlparse(base, ""), url)

----------------------------------------------------------------------------
(* The Embedded-State Extractor.  A JSON value is [t |-> "str", v],        *)
(* [t |-> "num", v], [t |-> "null"], [t |-> "dict", items] with items a    *)
(* sequence of [k, v] in insertion order, or [t |-> "list", items].  The   *)
(* text of a script is a sequence of statements [global, body]: a bare     *)
(* literal has global "", an assignment "NAME = body;" names its global;   *)
(* body is a JSON value or Malformed, an object literal json.loads         *)
(* rejects.                                                                *)

JStr(v) == [t |-> "str", v |-> v]
JNum(v) == [t |-> "num", v |-> v]
JNull == [t |-> "null"]
JDict(items) == [t |-> "dict", items |-> items]
JList(items) == [t |-> "list", items |-> items]
Malformed == [t |-> "malformed"]

RECURSIVE traverse(_)
traverse(obj) ==
    IF obj.t = "dict"
    THEN <<obj>> \o Concat([i \in 1..Len(obj.items) |-> traverse(obj.items[i].v)])
    ELSE IF obj.t = "list"
    THEN Concat([i \in 1..Len(obj.items) |-> traverse(obj.items[i])])
    ELSE <<>>

HasKey(d, key) == \E i \in 1..Len(d.items) : d.items[i].k = key

(* d.get(key): JSON null loads as None.                                    *)
Get(d, key) ==
    IF HasKey(d, key)
    THEN d.items[CHOOSE i \in 1..Len(d.items) : d.items[i].k = key].v
    ELSE JNull

(* str(value)                                                               *)
Str(value) ==
    CASE value.t = "str"  -> value.v
      [] value.t = "num"  -> <<ToString(value.v)>>
      [] value.t = "null" -> <<"None">>
      [] value.t = "dict" -> <<"{...}">>
      [] value.t = "list" -> <<"[...]">>

Truthy(value) ==
    CASE value.t = "str"  -> value.v # <<>>
      [] value.t = "num"  -> value.v # 0
      [] value.t = "null" -> FALSE
      [] value.t = "dict" -> value.items # <<>>
      [] value.t = "list" -> value.items # <<>>

(* str(value).strip() of a value that is not None, else "".                *)
text_of(value) == IF value = JNull THEN <<>> ELSE Strip(Str(value))

RECURSIVE pick_first(_, _)
picked_or_next(text, d, keys) == IF text # <<>> THEN text ELSE pick_first(d, keys)

pick_first(d, keys) ==
    IF keys = <<>> THEN <<>>
    ELSE picked_or_next(text_of(Get(d, Head(keys))), d, Tail(keys))

DigitTokens == {ToString(n) : n \in 0..99}

HasDigit(tok) == tok \in DigitTokens \cup {"9.50", "B-1", "B-2", "3kg", "2kg"}

(* re.search(r"\d", text)                                                   *)
digits_or_empty(text) ==
    IF \E i \in 1..Len(text) : HasDigit(text[i]) THEN text ELSE <<>>

normalize_price(raw) == digits_or_empty(text_of(raw))

(* a or b or c or d                                                         *)
RECURSIVE OrChain(_)
OrChain(values) ==
    IF Len(values) = 1 \/ Truthy(Head(values)) THEN Head(values)
    ELSE OrChain(Tail(values))

isdigit(s) == Len(s) = 1 /\ s[1] \in DigitTokens

(* Lines 246-250: the detail path made from the first numeric id field.    *)
RECURSIVE id_href(_, _)
id_href(item, keys) ==
    IF keys = <<>> THEN <<>>
    ELSE IF HasKey(item, Head(keys)) /\ isdigit(Strip(Str(Get(item, Head(keys)))))
         THEN <<"/", "product", "/">> \o Str(Get(item, Head(keys))) \o <<".html">>
    ELSE id_href(item, Tail(keys))

Or(a, b) == IF a # <<>> THEN a ELSE b

(* Line 252: urljoin(base_url, detail_href) if detail_href else ""         *)
resolve_href(base_url, detail_href) ==
    IF detail_href # <<>> THEN urljoin(base_url, detail_href) ELSE <<>>

(* Lines 243-250: the detail link value found on a dict node.              *)
embedded_detail_href(item) ==
    Or(pick_first(item, <<"detailUrl", "detailPageUrl", "url", "href", "link">>),
       id_href(item, <<"skuId", "itemId", "productId", "id">>))

(* The row lines 234-265 build from one dict node.                         *)
embedded_row(item, base_url) ==
    [product_name         |-> pick_first(item, <<"productName", "skuName", "name",
                                                 "title", "goodsName", "spuName">>),
     product_model_or_SKU |-> pick_first(item, <<"sku", "skuNo", "skuCode", "model",
                                                 "itemCode", "materialCode",
                                                 "productCode">>),
     part_description     |-> pick_first(item, <<"description", "desc", "subTitle",
                                                 "brief", "sellingPoint">>),
     price                |-> normalize_price(OrChain(<<Get(item, "price"),
                                                        Get(item, "salePrice"),
                                                        Get(item, "minPrice"),
                                                        Get(item, "showPrice")>>)),
     detail_page_url      |->
         resolve_href(base_url, embedded_detail_href(item))]

any_value(row) == \E f \in DOMAIN row : row[f] # <<>>

(* A loop that never records the URL of a kept candidate.                  *)
seen_unchanged(seen_urls, row) == seen_urls

(* Lines 269-270: if detail_url: seen_urls.add(detail_url)                 *)
seen_after_add(seen_urls, row) ==
    IF row.detail_page_url # <<>> THEN seen_urls \cup {row.detail_page_url} ELSE seen_urls

(* Lines 254-270: what one row does to the candidates and the seen URLs.   *)
consider(row, acc) ==
    IF ~(row.product_name # <<>> \/ row.product_model_or_SKU # <<>>
         \/ row.detail_page_url # <<>>)
    THEN acc
    ELSE IF row.detail_page_url # <<>> /\ row.detail_page_url \in acc.seen_urls
    THEN acc
    ELSE IF any_value(row)
    THEN [candidates |-> Append(acc.candidates, row),
          seen_urls  |-> seen_after_add(acc.seen_urls, row)]
    ELSE acc

(* Lines 230-270: the loop over the nodes of one payload.                  *)
RECURSIVE collect(_, _, _)
collect(items, base_url, acc) ==
    IF items = <<>> THEN acc
    ELSE collect(Tail(items), base_url, consider(embedded_row(Head(items), base_url), acc))

global_patterns == <<"__NEXT_DATA__", "__INITIAL_STATE__", "window.__NUXT__", "window.__data">>

first_hit(script_text, hits) ==
    IF hits = {} THEN <<>>
    ELSE << <<[global |-> "",
               body |-> script_text[CHOOSE i \in hits : \A j \in hits : i <= j].body]>> >>

(* re.search(pattern, script_text): the literal of the first assignment    *)
(* to the global whose value opens with a brace; <<>> when none.           *)
pattern_match(script_text, global) ==
    first_hit(script_text, {i \in 1..Len(script_text) :
                               /\ script_text[i].global = global
                               /\ script_text[i].body.t \in {"dict", "malformed"}})

(* Lines 202-219: the blocks one script contributes.                       *)
script_blocks(script) ==
    IF script.script = <<>> THEN <<>>
    ELSE (IF SeqContains(get_attr(script, "type", <<>>), "json")
          THEN <<script.script>> ELSE <<>>)
         \o Concat([i \in 1..Len(global_patterns) |->
                       pattern_match(script.script, global_patterns[i])])

blocks_of(scripts) == Concat([i \in 1..Len(scripts) |-> script_blocks(scripts[i].n)])

json_blocks(soup) == blocks_of(select(soup, "script"))

(* json.loads(block) succeeds on a text that is one well-formed literal.   *)
loads_ok(block) ==
    Len(block) = 1 /\ block[1].global = "" /\ block[1].body # Malformed

(* Lines 224-270: the loop over the blocks.                                *)
RECURSIVE collect_blocks(_, _, _)
collect_blocks(blocks, base_url, acc) ==
    IF blocks = <<>> THEN acc
    ELSE IF ~loads_ok(Head(blocks)) THEN collect_blocks(Tail(blocks), base_url, acc)
    ELSE collect_blocks(Tail(blocks), base_url,
                        collect(traverse(Head(blocks)[1].body), base_url, acc))

extract_products_from_embedded_json(soup, base_url) ==
    collect_blocks(json_blocks(soup), base_url,
                   [candidates |-> <<>>, seen_urls |-> {}]).candidates

----------------------------------------------------------------------------
(* The Card Field Extractor.                                               *)

(* Lines 151-155: the detail link value found on a card.                   *)
card_detail_href(card) ==
    first_attr(card, <<"a.product-link", "a.goods-link", "a[href*='product']",
                       "a[href*='item']", "a[href*='detail']", "a[href]">>, "href")

parse_product_from_card(card, base_url) ==
    LET product_name ==
            first_text(card, <<".product-name", ".goods-name", ".title", "h3", "h2",
                               "a[title]", "a">>)
        sku ==
            Or(first_text(card, <<".product-model", ".sku", ".model", ".item-code",
                                  ".code", "[data-sku]", "[class*='sku']">>),
               get_attr(card, "data-sku", <<>>))
        part_description ==
            first_text(card, <<".description", ".desc", ".product-desc", ".sub-title", "p">>)
        price ==
            first_text(card, <<".price", ".product-price", ".goods-price",
                               "[class*='price']">>)
        detail_href == card_detail_href(card)
    IN  [product_name         |-> product_name,
         product_model_or_SKU |-> sku,
         part_description     |-> part_description,
         price                |-> price,
         detail_page_url      |-> urljoin(base_url, detail_href)]

----------------------------------------------------------------------------
(* The Detail Spec Extractor.  The mapping is a sequence of [k, v] in      *)
(* insertion order, as a Python dict keeps it.                             *)

(* row.find_all(tags): the descendants with one of the tags.               *)
find_all(n, tags) == tags_of(SelectSeq(Descendants(n, <<>>), LAMBDA d : d.n.tag \in tags))

(* soup.select("s1, s2, ..."): the descendants matching any of them.       *)
select_any(n, ss) ==
    SelectSeq(Descendants(n, <<>>), LAMBDA d : \E i \in 1..Len(ss) : Matches(d, ss[i]))

Keys(m) == {m[i].k : i \in 1..Len(m)}

Value(m, key) == m[CHOOSE i \in 1..Len(m) : m[i].k = key].v

(* specs.setdefault(key, value): a write that keeps the value of a key     *)
(* already present.                                                        *)
put_if_absent(m, key, value) ==
    IF key \in Keys(m) THEN m ELSE Append(m, [k |-> key, v |-> value])

(* specs[key] = value                                                       *)
Put(m, key, value) ==
    IF key \in Keys(m)
    THEN [i \in 1..Len(m) |-> IF m[i].k = key THEN [k |-> key, v |-> value] ELSE m[i]]
    ELSE Append(m, [k |-> key, v |-> value])

(* if key and value: specs[key] = value                                     *)
Write(key, value) == IF key # <<>> /\ value # <<>> THEN <<[k |-> key, v |-> value]>> ELSE <<>>

(* Lines 279-284: the write of one table row.                              *)
row_write(cells) ==
    IF Len(cells) >= 2 THEN Write(get_text(cells[1]), get_text(cells[2])) ELSE <<>>

rows_writes(trs) == Concat([i \in 1..Len(trs) |-> row_write(find_all(trs[i].n, {"th", "td"}))])

(* Lines 278-284: the writes of the table rows, in order.                  *)
table_writes(soup) == rows_writes(select(soup, "table tr"))

Min(a, b) == IF a < b THEN a ELSE b

(* Lines 289-293: zip(dts, dds)                                            *)
zip_writes(dts, dds) ==
    Concat([j \in 1..Min(Len(dts), Len(dds)) |-> Write(get_text(dts[j]), get_text(dds[j]))])

lists_writes(dls) ==
    Concat([i \in 1..Len(dls) |->
               zip_writes(find_all(dls[i].n, {"dt"}), find_all(dls[i].n, {"dd"}))])

(* Lines 286-293: the writes of the definition lists.                      *)
dl_writes(soup) == lists_writes(select(soup, "dl"))

(* Lines 298-302: key, value = text.split(":", 1), both stripped.          *)
split_write(text, n) ==
    IF n < Len(text)
    THEN Write(Strip(SubSeq(text, 1, n)), Strip(SubSeq(text, n + 2, Len(text))))
    ELSE <<>>

item_write(text) == split_write(text, PieceLen(text, ":"))

items_writes(lis) == Concat([i \in 1..Len(lis) |-> item_write(get_text(lis[i].n))])

(* Lines 295-302: the writes of the specification list items.              *)
li_writes(soup) ==
    items_writes(select_any(soup, <<".spec li", ".specs li", ".product-spec li", ".param li">>))

RECURSIVE put_all(_, _)
put_all(m, writes) ==
    IF writes = <<>> THEN m
    ELSE put_all(Put(m, Head(writes).k, Head(writes).v), Tail(writes))

(* The JSON string escapes of a quotation mark and of a reverse solidus.   *)
escape(s) ==
    [i \in 1..Len(s) |-> IF s[i] = "\"" THEN "\\\""
                         ELSE IF s[i] = "\\" THEN "\\\\" ELSE s[i]]

(* json.dumps(specs, ensure_ascii=False)                                   *)
json_dumps(m) ==
    <<"{">>
    \o JoinWith(<<",", " ">>,
                [i \in 1..Len(m) |-> <<"\"">> \o escape(m[i].k) \o <<"\"", ":", " ", "\"">>
                                     \o escape(m[i].v) \o <<"\"">>])
    \o <<"}">>

(* The loops of lines 278, 286 and 295, in the order they run: the writes  *)
(* still to come, each with the source it comes from.                      *)
Tagged(src, ws) == [i \in 1..Len(ws) |-> [src |-> src, k |-> ws[i].k, v |-> ws[i].v]]

pending_writes(soup) ==
    Tagged("table", table_writes(soup)) \o Tagged("dl", dl_writes(soup))
    \o Tagged("li", li_writes(soup))

extract_detail_specs(soup) == put_all(<<>>, pending_writes(soup))

----------------------------------------------------------------------------
(* Checking the Field Matcher: every element of at most MaxKids children   *)
(* against every locator list of at most MaxLocators selectors.            *)

MatcherShapes ==
    { [tag |-> "span", cls |-> {"price"}],
      [tag |-> "span", cls |-> {"goods-price"}],
      [tag |-> "a",    cls |-> {}] }

MatcherValues ==
    { [text |-> <<>>,                            attrs |-> {}],
      [text |-> <<" ">>,                         attrs |-> {[k |-> "href", v |-> <<" ">>]}],
      [text |-> <<"x">>,                         attrs |-> {[k |-> "href", v |-> <<"/d">>]}],
      [text |-> <<" ", "y", " ", " ", "z", " ">>, attrs |-> {[k |-> "href", v |-> <<" ", "/e", " ">>]}] }

MatcherNodes ==
    { Node(s.tag, s.cls, v.attrs, v.text, <<>>) : s \in MatcherShapes, v \in MatcherValues }

MatcherSelectors == {".price", "[class*='price']", "a"}

MatcherInputs ==
    { [element |-> Node("div", {}, {}, <<>>, kids), selectors |-> sels, attr |-> "href"] :
        kids \in SeqsUpTo(MatcherNodes, MaxKids),
        sels \in SeqsUpTo(MatcherSelectors, MaxLocators) }

IdleOrch ==
    /\ html = None
    /\ cards = <<>>
    /\ rows = <<>>
    /\ idx = 0
    /\ detail_soup = None
    /\ results = <<>>
    /\ returned = <<>>
    /\ log = <<>>

InitMatcher ==
    /\ pc = "call"
    /\ arg \in MatcherInputs
    /\ ret = <<>>
    /\ step = <<>>
    /\ specs = <<>>
    /\ IdleOrch

CallFirstText ==
    /\ pc = "call"
    /\ pc' = "first_text"
    /\ ret' = first_text(arg.element, arg.selectors)
    /\ UNCHANGED <<arg, step, specs>>
    /\ UNCHANGED orchVars

CallFirstAttr ==
    /\ pc = "call"
    /\ pc' = "first_attr"
    /\ ret' = first_attr(arg.element, arg.selectors, arg.attr)
    /\ UNCHANGED <<arg, step, specs>>
    /\ UNCHANGED orchVars

NextMatcher == CallFirstText \/ CallFirstAttr

SpecMatcher == InitMatcher /\ [][NextMatcher]_vars

(* What locator i of the list yields: the normalized text, or the stripped *)
(* attribute, of the first element it matches; empty when it matches none. *)
LocatorText(i) ==
    LET node == select_one(arg.element, arg.selectors[i]) IN
    IF node = None THEN <<>> ELSE JoinWith(<<" ">>, SplitWs(get_text(node)))

LocatorAttr(i) ==
    LET node == select_one(arg.element, arg.selectors[i]) IN
    IF node = None \/ ~has_attr(node, arg.attr) THEN <<>>
    ELSE Strip(get_attr(node, arg.attr, <<>>))

EarliestNonEmpty(Val(_), result) ==
    LET n == Len(arg.selectors) IN
    \/ /\ \A i \in 1..n : Val(i) = <<>>
       /\ result = <<>>
    \/ \E i \in 1..n :
          /\ Val(i) # <<>>
          /\ \A j \in 1..(i - 1) : Val(j) = <<>>
          /\ result = Val(i)

(* C6: first_text and first_attr return the value of the earliest locator  *)
(* in list order that yields a non-empty normalized value, skipping the    *)
(* locators that match nothing or yield an empty value, and return the     *)
(* empty string when no locator yields one.                                *)
C6_MatcherPriority ==
    /\ pc = "first_text" => EarliestNonEmpty(LocatorText, ret)
    /\ pc = "first_attr" => EarliestNonEmpty(LocatorAttr, ret)

(* Both locators of [A, B] yield different non-empty values, and A's is    *)
(* the result.                                                             *)
C6_Witness ==
    /\ pc = "first_text"
    /\ Len(arg.selectors) = 2
    /\ LocatorText(1) # <<>>
    /\ LocatorText(2) # <<>>
    /\ LocatorText(1) # LocatorText(2)
    /\ ret = LocatorText(1)

----------------------------------------------------------------------------
(* Checking the Card Locator: every listing page of at most MaxItems       *)
(* top-level items.                                                        *)

Link(href, text) == Node("a", {}, {[k |-> "href", v |-> href]}, text, <<>>)

Soup(kids) == Node("[document]", {}, {}, <<>>, kids)

LocatorItems ==
    { Node("div", {"product-item"}, {}, <<>>, <<Link(<<"/", "d", "/", "1">>, <<"Bolt">>)>>),
      Node("div", {"goods-item"}, {}, <<>>, <<Link(<<"/", "product", "/", "2">>, <<"Nut">>)>>),
      Node("article", {}, {}, <<"Washer">>, <<>>),
      Node("li", {}, {[k |-> "data-sku", v |-> <<"B-1">>]}, <<"Bolt">>, <<>>),
      Node("ul", {"product-list"}, {}, <<>>,
           << Node("li", {}, {}, <<"Bolt">>, <<>>),
              Node("li", {"list-item"}, {}, <<"Nut">>, <<>>) >>),
      Node("div", {}, {}, <<>>, <<Link(<<"/", "product", "/", "5">>, <<"Bolt">>)>>),
      Node("span", {}, {}, <<>>, <<Link(<<"/", "item", "/", "7">>, <<"Nut">>)>>),
      Node("div", {}, {}, <<>>, <<Link(<<"/", "about">>, <<"About">>)>>),
      Node("p", {}, {}, <<"Empty">>, <<>>) }

LocatorInputs == { [soup |-> Soup(kids)] : kids \in SeqsUpTo(LocatorItems, MaxItems) }

InitLocator ==
    /\ pc = "call"
    /\ arg \in LocatorInputs
    /\ ret = <<>>
    /\ step = <<>>
    /\ specs = <<>>
    /\ IdleOrch

CallFindProductCards ==
    /\ pc = "call"
    /\ pc' = "find_product_cards"
    /\ ret' = find_product_cards(arg.soup)
    /\ UNCHANGED <<arg, step, specs>>
    /\ UNCHANGED orchVars

NextLocator == CallFindProductCards

SpecLocator == InitLocator /\ [][NextLocator]_vars

(* The positions, in document order, of the elements selector s matches.   *)
MatchPositions(soup, s) ==
    {k \in 1..Len(Descendants(soup, <<>>)) : Matches(Descendants(soup, <<>>)[k], s)}

(* cs is exactly the elements at the positions P, in document order.       *)
IsMatchSet(cs, soup, P) ==
    /\ Len(cs) = Cardinality(P)
    /\ \A j \in 1..Len(cs) :
          \E k \in P : /\ Cardinality({q \in P : q <= k}) = j
                       /\ cs[j] = Descendants(soup, <<>>)[k].n

ProductLinks(soup) ==
    {k \in MatchPositions(soup, "a[href]") :
        HasProductToken(get_attr(Descendants(soup, <<>>)[k].n, "href", <<>>))}

(* C9: find_product_cards returns exactly the full match set, in document  *)
(* order, of the first structural locator (in priority order) that matches *)
(* an element, with nothing a lower-priority locator alone matches; only   *)
(* when no structural locator matches does it return link-harvest cards,   *)
(* each the container of a product-like link, and a page with neither      *)
(* yields the empty sequence.                                              *)
C9_FirstLocatorOnly ==
    pc = "find_product_cards" =>
        LET n == Len(candidate_selectors)
            hit == {i \in 1..n : MatchPositions(arg.soup, candidate_selectors[i]) # {}}
        IN  /\ \A i \in hit :
                  (\A j \in hit : i <= j) =>
                      IsMatchSet(ret, arg.soup, MatchPositions(arg.soup, candidate_selectors[i]))
            /\ hit = {} =>
                  /\ \A j \in 1..Len(ret) :
                        \E k \in ProductLinks(arg.soup) :
                            ret[j] = find_parent_or_self(Descendants(arg.soup, <<>>)[k])
                  /\ \A k \in ProductLinks(arg.soup) :
                        \E j \in 1..Len(ret) :
                            ret[j] = find_parent_or_self(Descendants(arg.soup, <<>>)[k])
                  /\ ProductLinks(arg.soup) = {} => ret = <<>>

(* A page on which two structural locators match different elements, and   *)
(* a product-like link stands outside both: only the first locator's       *)
(* elements are returned.                                                  *)
C9_Witness ==
    /\ pc = "find_product_cards"
    /\ MatchPositions(arg.soup, ".product-item") # {}
    /\ MatchPositions(arg.soup, ".goods-item") # {}
    /\ Len(ret) = Cardinality(MatchPositions(arg.soup, ".product-item"))
    /\ Len(ret) < Len(arg.soup.kids)

----------------------------------------------------------------------------
(* Checking the Embedded-State Extractor: every page of at most MaxScripts *)
(* scripts, each holding a tree of product-shaped and other nodes.         *)

KV(k, v) == [k |-> k, v |-> v]

EmbeddedProducts ==
    { JDict(<<KV("name", JStr(<<"Bolt">>)), KV("url", JStr(<<"/", "d", "/", "1">>))>>),
      JDict(<<KV("skuName", JStr(<<"Nut">>)),
              KV("detailUrl", JStr(<<"https:", "//", "www.zkh.com", "/", "d", "/", "1">>))>>),
      JDict(<<KV("title", JStr(<<"Washer">>)), KV("id", JNum(5)),
              KV("price", JStr(<<"9.50">>))>>),
      JDict(<<KV("sku", JStr(<<"B-2">>)), KV("url", JNull), KV("id", JStr(<<"x7">>))>>),
      JDict(<<KV("price", JStr(<<"call">>)), KV("count", JNum(3))>>) }

EmbeddedTrees ==
    { JDict(<<KV("title", JStr(<<"Catalog">>)),
              KV("items", JList(<<p, JDict(<<KV("related", q)>>)>>))>>) :
        p \in EmbeddedProducts, q \in EmbeddedProducts }
    \cup { JList(<<p>>) : p \in EmbeddedProducts }

Script(type, text) ==
    [tag |-> "script", cls |-> {}, attrs |-> type, text |-> <<>>, kids |-> <<>>,
     script |-> text]

JsonType == {[k |-> "type", v |-> <<"application/json">>]}

EmbeddedScripts ==
    { Script(JsonType, <<[global |-> "", body |-> t]>>) : t \in EmbeddedTrees }
    \cup { Script({}, <<[global |-> "__INITIAL_STATE__", body |-> t]>>) :
             t \in {u \in EmbeddedTrees : u.t = "dict" /\ u.items[2].v.items[1] = u.items[2].v.items[2].items[1].v} }
    \cup { Script(JsonType, <<[global |-> "", body |-> Malformed]>>),
           Script({}, <<[global |-> "window.__data", body |-> Malformed]>>),
           Script({}, <<>>) }

EmbeddedInputs == { [soup |-> Soup(kids)] : kids \in SeqsUpTo(EmbeddedScripts, MaxScripts) }

InitEmbedded ==
    /\ pc = "call"
    /\ arg \in EmbeddedInputs
    /\ ret = <<>>
    /\ step = <<>>
    /\ specs = <<>>
    /\ IdleOrch

CallExtractEmbedded ==
    /\ pc = "call"
    /\ pc' = "extract_products_from_embedded_json"
    /\ ret' = extract_products_from_embedded_json(arg.soup, BASE_URL)
    /\ UNCHANGED <<arg, step, specs>>
    /\ UNCHANGED orchVars

NextEmbedded == CallExtractEmbedded

SpecEmbedded == InitEmbedded /\ [][NextEmbedded]_vars

(* The rows of all dict nodes of all blocks that parse, in block order and *)
(* then depth-first order.                                                 *)
NodeRows(soup) ==
    LET ok == SelectSeq(json_blocks(soup), loads_ok)
        nodes == Concat([i \in 1..Len(ok) |-> traverse(ok[i][1].body)])
    IN  [i \in 1..Len(nodes) |-> embedded_row(nodes[i], BASE_URL)]

NoUrl(rs) == SelectSeq(rs, LAMBDA r : r.detail_page_url = <<>>)

(* C4: the extractor returns no two candidates with the same non-empty     *)
(* detail_page_url; the candidate kept for a URL is the first node, in     *)
(* block order and then traversal order, resolving to it; every URL some   *)
(* node resolves to is kept; and the candidates without a URL are all the  *)
(* nodes without a URL that have a name or an identifier, none dropped.    *)
C4_DedupByUrl ==
    pc = "extract_products_from_embedded_json" =>
        LET all == NodeRows(arg.soup) IN
        /\ \A i, j \in 1..Len(ret) :
              (i # j /\ ret[i].detail_page_url # <<>>)
                  => ret[i].detail_page_url # ret[j].detail_page_url
        /\ \A i \in 1..Len(ret) :
              ret[i].detail_page_url # <<>> =>
                  \E k \in 1..Len(all) :
                      /\ all[k] = ret[i]
                      /\ \A m \in 1..(k - 1) : all[m].detail_page_url # ret[i].detail_page_url
        /\ \A k \in 1..Len(all) :
              all[k].detail_page_url # <<>> =>
                  \E i \in 1..Len(ret) : ret[i].detail_page_url = all[k].detail_page_url
        /\ NoUrl(ret) = SelectSeq(NoUrl(all), LAMBDA r : r.product_name # <<>>
                                                     \/ r.product_model_or_SKU # <<>>)

(* Two blocks each hold a node resolving to the same URL, written          *)
(* differently, and two nodes without a URL are equal: one candidate for   *)
(* the URL, both of the others.                                            *)
C4_Witness ==
    /\ pc = "extract_products_from_embedded_json"
    /\ Len(SelectSeq(json_blocks(arg.soup), loads_ok)) = 2
    /\ \E k, m \in 1..Len(NodeRows(arg.soup)) :
          /\ k < m
          /\ NodeRows(arg.soup)[k].detail_page_url # <<>>
          /\ NodeRows(arg.soup)[k].detail_page_url = NodeRows(arg.soup)[m].detail_page_url
          /\ NodeRows(arg.soup)[k] # NodeRows(arg.soup)[m]
    /\ \E i, j \in 1..Len(ret) :
          i # j /\ ret[i] = ret[j] /\ ret[i].detail_page_url = <<>>

----------------------------------------------------------------------------
(* Checking the Detail Spec Extractor, one write at a time: every detail   *)
(* page with a table and a specification list of at most MaxRows entries   *)
(* each, and a definition list between them.                               *)

Leaf(tag, text) == Node(tag, {}, {}, text, <<>>)

DetailRows ==
    { Node("tr", {}, {}, <<>>, <<Leaf("th", <<"Weight">>), Leaf("td", <<" ", "2kg">>)>>),
      Node("tr", {}, {}, <<>>, <<Leaf("td", <<"Material">>), Leaf("td", <<"Steel">>)>>),
      Node("tr", {}, {}, <<>>, <<Leaf("td", <<"Weight">>), Leaf("td", <<" ">>)>>) }

DetailLists ==
    { <<>>,
      <<Leaf("dt", <<"Weight">>), Leaf("dd", <<"5kg">>)>>,
      <<Leaf("dt", <<"Material">>), Leaf("dt", <<"Weight">>), Leaf("dd", <<"5kg">>)>>,
      <<Leaf("dt", <<"Weight">>), Leaf("dd", <<"5kg">>),
        Leaf("dt", <<"Color">>), Leaf("dd", <<"Red">>)>> }

DetailItems ==
    { Leaf("li", <<"Weight", ":", " ", "3kg">>),
      Leaf("li", <<"Size", " ", ":", "10", ":", "20">>),
      Leaf("li", <<"Color", ":", " ">>),
      Leaf("li", <<"Material", " ", "Brass">>) }

DetailPage(trs, dl, lis) ==
    Soup(<< Node("table", {}, {}, <<>>, trs),
            Node("dl", {}, {}, <<>>, dl),
            Node("ul", {"spec"}, {}, <<>>, lis) >>)

DetailInputs ==
    { [soup |-> DetailPage(trs, dl, lis)] :
        trs \in SeqsUpTo(DetailRows, MaxRows),
        dl \in DetailLists,
        lis \in SeqsUpTo(DetailItems, MaxRows) }

InitDetail ==
    /\ pc = "extract_detail_specs"
    /\ arg \in DetailInputs
    /\ ret = <<>>
    /\ step = pending_writes(arg.soup)
    /\ specs = <<>>
    /\ IdleOrch

WriteNext(src) ==
    /\ pc = "extract_detail_specs"
    /\ step # <<>>
    /\ Head(step).src = src
    /\ specs' = Put(specs, Head(step).k, Head(step).v)
    /\ step' = Tail(step)
    /\ UNCHANGED <<pc, arg, ret>>
    /\ UNCHANGED orchVars

WriteTableRow == WriteNext("table")

WriteDlPair == WriteNext("dl")

WriteListItem == WriteNext("li")

ReturnSpecs ==
    /\ pc = "extract_detail_specs"
    /\ step = <<>>
    /\ pc' = "returned"
    /\ ret' = specs
    /\ UNCHANGED <<arg, step, specs>>
    /\ UNCHANGED orchVars

NextDetail == WriteTableRow \/ WriteDlPair \/ WriteListItem \/ ReturnSpecs

SpecDetail == InitDetail /\ [][NextDetail]_vars

(* The value of the last write of key in ws.                               *)
LastValue(ws, key) ==
    ws[CHOOSE i \in 1..Len(ws) : ws[i].k = key /\ \A j \in (i + 1)..Len(ws) : ws[j].k # key].v

LayeredValue(soup, key) ==
    IF key \in Keys(li_writes(soup)) THEN LastValue(li_writes(soup), key)
    ELSE IF key \in Keys(dl_writes(soup)) THEN LastValue(dl_writes(soup), key)
    ELSE LastValue(table_writes(soup), key)

C5_Layered ==
    pc = "returned" =>
        /\ ret = extract_detail_specs(arg.soup)
        /\ Keys(ret) = Keys(table_writes(arg.soup)) \cup Keys(dl_writes(arg.soup))
                       \cup Keys(li_writes(arg.soup))
        /\ \A i, j \in 1..Len(ret) : i # j => ret[i].k # ret[j].k
        /\ \A key \in Keys(ret) : Value(ret, key) = LayeredValue(arg.soup, key)

C5_NeverRemoved == \A key \in Keys(specs) : key \in Keys(specs')

(* C5: the three sources are applied in the order table rows, definition   *)
(* lists, specification list items; the returned value of every key is the *)
(* one of the last write in that order, so a list item overwrites a        *)
(* definition list or table entry and a definition list a table entry; and *)
(* no key, once added, is ever removed.                                    *)
C5_LastWriteWins == [](C5_Layered) /\ [][C5_NeverRemoved]_vars

(* The table gives Weight = 2kg, a list item "Weight: 3kg", and the result *)
(* has Weight = 3kg.                                                       *)
C5_Witness ==
    /\ pc = "returned"
    /\ <<"Weight">> \in Keys(table_writes(arg.soup))
    /\ LastValue(table_writes(arg.soup), <<"Weight">>) = <<"2kg">>
    /\ <<"Weight">> \in Keys(li_writes(arg.soup))
    /\ Value(ret, <<"Weight">>) = <<"3kg">>

----------------------------------------------------------------------------
(* The Extraction Orchestrator, scrape_category, one step per action.  The *)
(* text of a page is its markup tree; the empty string has neither markup  *)
(* nor text.  log is the history of the calls: the fetches, each with the  *)
(* candidate it is for (0 for the listing) and what it returned, and the   *)
(* calls of the extractors.                                                *)

DEFAULT_CATEGORY_URL ==
    <<"https:", "//", "www.zkh.com", "/", "list", "/", "c-10287403.html">>

EmptyText == Soup(<<>>)

(* not html                                                                *)
Falsy(text) == IF text = None THEN TRUE ELSE text.kids = <<>> /\ text.text = <<>>

Call(op, cand, url, page) == [op |-> op, cand |-> cand, url |-> url, page |-> page]

OrchHrefs ==
    { <<"d", "/", "1">>,
      <<"/", "d", "/", "2">>,
      <<"https:", "//", "other.com", "/", "d", "/", "3">>,
      <<"//", "cdn.com", "/", "x">>,
      <<"javascript:", "void(0)">> }

OrchCards ==
    { Node("div", {"product-item"}, {}, <<>>, <<Leaf("h3", <<"Bolt", " ", "A">>), Link(h, <<"more">>)>>) :
        h \in OrchHrefs }
    \cup { Node("div", {"product-item"}, {[k |-> "data-sku", v |-> <<"B-1">>]}, <<>>,
                <<Leaf("h3", <<"Bolt", " ", "B">>)>>),
           Node("div", {}, {}, <<>>, <<Link(<<"/", "product", "/", "5">>, <<"Nut">>)>>) }

OrchScripts ==
    { Script(JsonType, <<[global |-> "", body |-> t]>>) :
        t \in { JList(<<JDict(<<KV("name", JStr(<<"Bolt">>)), KV("url", JStr(<<"/", "d", "/", "1">>))>>),
                        JDict(<<KV("name", JStr(<<"Nut">>))>>)>>),
                JDict(<<KV("title", JStr(<<"Washer">>)),
                        KV("link", JStr(<<"https:", "//", "other.com", "/", "d", "/", "3">>))>>) } }
    \cup { Script({}, <<[global |-> "__NEXT_DATA__",
                         body |-> JDict(<<KV("sku", JStr(<<"B-2">>)), KV("id", JNum(5))>>)]>>),
           Script(JsonType, <<[global |-> "", body |-> Malformed]>>) }

ListingResponses ==
    {None, EmptyText} \cup { Soup(kids) : kids \in SeqsUpTo(OrchCards \cup OrchScripts, MaxCards) }

DetailResponses ==
    { None,
      Soup(<<Leaf("p", <<"No", " ", "data">>)>>),
      Soup(<<Node("ul", {"spec"}, {}, <<>>,
                  <<Leaf("li", <<"Size", ":", " ", "6", "\"">>),
                    Leaf("li", <<"Finish", ":", " ", "Zinc">>)>>)>>) }

InitOrch ==
    /\ pc = "start"
    /\ arg = <<>>
    /\ ret = <<>>
    /\ step = <<>>
    /\ specs = <<>>
    /\ IdleOrch

(* Line 308: html = fetch_html(session, category_url)                      *)
FetchListing ==
    /\ pc = "start"
    /\ \E text \in ListingResponses :
          /\ html' = text
          /\ log' = Append(log, Call("fetch_html", 0, DEFAULT_CATEGORY_URL, text))
    /\ pc' = "fetched"
    /\ UNCHANGED <<cards, rows, idx, detail_soup, results, returned>>
    /\ UNCHANGED pureVars

(* Lines 309-310: if not html: return []                                   *)
ReturnEmpty ==
    /\ pc = "fetched"
    /\ Falsy(html)
    /\ returned' = <<>>
    /\ pc' = "done"
    /\ UNCHANGED <<html, cards, rows, idx, detail_soup, results, log>>
    /\ UNCHANGED pureVars

(* Lines 312-313: cards = find_product_cards(soup)                         *)
LocateCards ==
    /\ pc = "fetched"
    /\ ~Falsy(html)
    /\ cards' = find_product_cards(html)
    /\ log' = Append(log, Call("find_product_cards", 0, <<>>, None))
    /\ pc' = "located"
    /\ UNCHANGED <<html, rows, idx, detail_soup, results, returned>>
    /\ UNCHANGED pureVars

(* Lines 316-318: rows = [parse_product_from_card(card, BASE_URL) ...]     *)
ParseCards ==
    /\ pc = "located"
    /\ cards # <<>>
    /\ rows' = [i \in 1..Len(cards) |-> parse_product_from_card(cards[i], BASE_URL)]
    /\ log' = log \o [i \in 1..Len(cards) |-> Call("parse_product_from_card", i, <<>>, None)]
    /\ idx' = 1
    /\ pc' = "loop"
    /\ UNCHANGED <<html, cards, detail_soup, results, returned>>
    /\ UNCHANGED pureVars

(* An orchestrator that runs the embedded extractor whatever the locator   *)
(* found.                                                                  *)
EmbeddedAlways ==
    /\ pc = "located"
    /\ rows' = extract_products_from_embedded_json(html, BASE_URL)
    /\ log' = Append(log, Call("extract_products_from_embedded_json", 0, <<>>, None))
    /\ idx' = 1
    /\ pc' = "loop"
    /\ UNCHANGED <<html, cards, detail_soup, results, returned>>
    /\ UNCHANGED pureVars

(* Lines 319-322: rows = extract_products_from_embedded_json(html, ...)    *)
EmbeddedFallback ==
    /\ pc = "located"
    /\ cards = <<>>
    /\ rows' = extract_products_from_embedded_json(html, BASE_URL)
    /\ log' = Append(log, Call("extract_products_from_embedded_json", 0, <<>>, None))
    /\ idx' = 1
    /\ pc' = "loop"
    /\ UNCHANGED <<html, cards, detail_soup, results, returned>>
    /\ UNCHANGED pureVars

With(product, value) ==
    [f \in DOMAIN product \cup {"detailed_specs"} |->
        IF f = "detailed_specs" THEN value ELSE product[f]]

(* An orchestrator that keeps a candidate without a detail URL as it is,   *)
(* with no detailed_specs.                                                 *)
KeepWithoutField ==
    /\ pc = "loop"
    /\ idx <= Len(rows)
    /\ rows[idx].detail_page_url = <<>>
    /\ results' = Append(results, rows[idx])
    /\ idx' = idx + 1
    /\ UNCHANGED <<pc, html, cards, rows, detail_soup, returned, log>>
    /\ UNCHANGED pureVars

(* Lines 327-332: the candidate has no detail URL.                         *)
KeepWithoutSpecs ==
    /\ pc = "loop"
    /\ idx <= Len(rows)
    /\ rows[idx].detail_page_url = <<>>
    /\ results' = Append(results, With(rows[idx], <<"{", "}">>))
    /\ idx' = idx + 1
    /\ UNCHANGED <<pc, html, cards, rows, detail_soup, returned, log>>
    /\ UNCHANGED pureVars

(* An orchestrator that fetches a detail page again when the fetch         *)
(* returned nothing.                                                       *)
FetchDetailRetrying ==
    /\ pc = "loop"
    /\ idx <= Len(rows)
    /\ rows[idx].detail_page_url # <<>>
    /\ \E page \in DetailResponses :
          /\ detail_soup' = page
          /\ log' = Append(log, Call("fetch_html", idx, rows[idx].detail_page_url, page))
          /\ pc' = IF page = None THEN "loop" ELSE "attach"
    /\ UNCHANGED <<html, cards, rows, idx, results, returned>>
    /\ UNCHANGED pureVars

(* Line 335: detail_soup = fetch_soup(session, detail_url)                 *)
FetchDetail ==
    /\ pc = "loop"
    /\ idx <= Len(rows)
    /\ rows[idx].detail_page_url # <<>>
    /\ \E page \in DetailResponses :
          /\ detail_soup' = page
          /\ log' = Append(log, Call("fetch_html", idx, rows[idx].detail_page_url, page))
    /\ pc' = "attach"
    /\ UNCHANGED <<html, cards, rows, idx, results, returned>>
    /\ UNCHANGED pureVars

(* An orchestrator that drops the candidate whose detail fetch returned    *)
(* nothing.                                                                *)
AttachSpecsSkipping ==
    /\ pc = "attach"
    /\ results' = IF detail_soup = None THEN results
                  ELSE Append(results,
                              With(rows[idx], json_dumps(extract_detail_specs(detail_soup))))
    /\ idx' = idx + 1
    /\ pc' = "loop"
    /\ UNCHANGED <<html, cards, rows, detail_soup, returned, log>>
    /\ UNCHANGED pureVars

(* Lines 336-338: the specs, serialized, are attached and the record kept. *)
AttachSpecs ==
    /\ pc = "attach"
    /\ results' = Append(results,
                         With(rows[idx],
                              json_dumps(IF detail_soup # None
                                         THEN extract_detail_specs(detail_soup) ELSE <<>>)))
    /\ idx' = idx + 1
    /\ pc' = "loop"
    /\ UNCHANGED <<html, cards, rows, detail_soup, returned, log>>
    /\ UNCHANGED pureVars

(* Line 340: return results                                                *)
ReturnResults ==
    /\ pc = "loop"
    /\ idx > Len(rows)
    /\ returned' = results
    /\ pc' = "done"
    /\ UNCHANGED <<html, cards, rows, idx, detail_soup, results, log>>
    /\ UNCHANGED pureVars

Next ==
    \/ FetchListing
    \/ ReturnEmpty
    \/ LocateCards
    \/ ParseCards
    \/ EmbeddedFallback
    \/ KeepWithoutSpecs
    \/ FetchDetail
    \/ AttachSpecs
    \/ ReturnResults

Spec == InitOrch /\ [][Next]_vars


----------------------------------------------------------------------------
(* Properties of the orchestrator, over its state and the history log.     *)

Calls(op) == SelectSeq(log, LAMBDA c : c.op = op)

Fetches == Calls("fetch_html")

(* The listing had a text and an extractor has produced rows from it.      *)
Extracted == pc \in {"loop", "attach"} \/ (pc = "done" /\ ~Falsy(html))

StartsWith(s, prefix) == Len(s) >= Len(prefix) /\ SubSeq(s, 1, Len(prefix)) = prefix

(* The dict nodes of the page's blocks that parse, in the order the        *)
(* embedded extractor meets them.                                          *)
PageNodes(soup) ==
    LET ok == SelectSeq(json_blocks(soup), loads_ok)
    IN  Concat([i \in 1..Len(ok) |-> traverse(ok[i][1].body)])

(* json.loads of the text of an object whose keys and values are strings:  *)
(* the mapping, or no mapping when the text is not such an object.         *)
Parsed(m) == [ok |-> TRUE, value |-> m]

Invalid == [ok |-> FALSE, value |-> <<>>]

unescape(s) ==
    [i \in 1..Len(s) |-> IF s[i] = "\\\"" THEN "\""
                         ELSE IF s[i] = "\\\\" THEN "\\" ELSE s[i]]

RECURSIVE loads_pairs(_, _)
loads_pairs(s, m) ==
    LET kn == PieceLen(Tail(s), "\"")
        afterk == SubSeq(s, kn + 3, Len(s))
        vn == PieceLen(SubSeq(afterk, 4, Len(afterk)), "\"")
        afterv == SubSeq(afterk, vn + 5, Len(afterk))
        m2 == Put(m, unescape(SubSeq(s, 2, kn + 1)), unescape(SubSeq(afterk, 4, vn + 3)))
    IN  IF ~(Len(s) >= 1 /\ s[1] = "\"" /\ kn + 2 <= Len(s)) THEN Invalid
        ELSE IF ~(/\ Len(afterk) >= 3
                  /\ afterk[1] = ":" /\ afterk[2] = " " /\ afterk[3] = "\""
                  /\ vn + 4 <= Len(afterk)) THEN Invalid
        ELSE IF afterv = <<"}">> THEN Parsed(m2)
        ELSE IF Len(afterv) >= 3 /\ afterv[1] = "," /\ afterv[2] = " "
        THEN loads_pairs(SubSeq(afterv, 3, Len(afterv)), m2)
        ELSE Invalid

loads(s) ==
    IF s = <<"{", "}">> THEN Parsed(<<>>)
    ELSE IF Len(s) >= 2 /\ s[1] = "{" THEN loads_pairs(Tail(s), <<>>)
    ELSE Invalid

(* The pages the detail fetches of candidate i returned.                   *)
PagesOf(i) == {Fetches[k].page : k \in {j \in 1..Len(Fetches) : Fetches[j].cand = i}}

(* The specs found for candidate i: none without a fetch or a page.        *)
SpecsFound(i) ==
    IF PagesOf(i) = {} \/ None \in PagesOf(i) THEN <<>>
    ELSE extract_detail_specs(CHOOSE page \in PagesOf(i) : TRUE)

----------------------------------------------------------------------------
(* C1 as the specification states it: for every listing page fetched       *)
(* successfully, the embedded extractor is invoked exactly once when the   *)
(* locator yields zero cards and never when it yields a card.              *)
C1_AsStated ==
    (pc = "done" /\ html # None) =>
        IF find_product_cards(html) = <<>>
        THEN Len(Calls("extract_products_from_embedded_json")) = 1
        ELSE Calls("extract_products_from_embedded_json") = <<>>

(* C1: for every listing page fetched successfully with a non-empty text,  *)
(* the embedded extractor is invoked exactly once when find_product_cards  *)
(* yields zero cards, and never when it yields a card, in which case every *)
(* candidate comes from parse_product_from_card, one per card in order; a  *)
(* listing fetched with an empty text returns with no extractor invoked.   *)
C1_FallbackOnlyWithoutCards ==
    IF Extracted
    THEN /\ cards = find_product_cards(html)
         /\ IF cards = <<>>
            THEN /\ Len(Calls("extract_products_from_embedded_json")) = 1
                 /\ Calls("parse_product_from_card") = <<>>
                 /\ rows = extract_products_from_embedded_json(html, BASE_URL)
            ELSE /\ Calls("extract_products_from_embedded_json") = <<>>
                 /\ Len(rows) = Len(cards)
                 /\ \A i \in 1..Len(rows) :
                       rows[i] = parse_product_from_card(cards[i], BASE_URL)
                 /\ Len(Calls("parse_product_from_card")) = Len(cards)
                 /\ \A i \in 1..Len(cards) : Calls("parse_product_from_card")[i].cand = i
    ELSE /\ Calls("extract_products_from_embedded_json") = <<>>
         /\ Calls("parse_product_from_card") = <<>>

(* A listing with text and no card: the embedded extractor ran once and    *)
(* found candidates.                                                       *)
C1_Witness ==
    /\ pc = "done"
    /\ ~Falsy(html)
    /\ cards = <<>>
    /\ Len(Calls("extract_products_from_embedded_json")) = 1
    /\ rows # <<>>

(* The serialized specs of record r parse as a JSON object.                *)
IsObject(r) == "detailed_specs" \in DOMAIN r /\ loads(r.detailed_specs).ok

(* C2: every record kept, and so every record returned, has a              *)
(* detailed_specs that is the JSON text of the key -> value mapping found  *)
(* for its candidate: of no mapping without a detail URL or a fetched      *)
(* page, else of the specs of the page; it is "{}" when no specs were      *)
(* found, and never missing.                                               *)
C2_SpecsAlwaysObject ==
    /\ \A i \in 1..Len(results) :
          /\ IsObject(results[i])
          /\ loads(results[i].detailed_specs).value = SpecsFound(i)
          /\ SpecsFound(i) = <<>> => results[i].detailed_specs = <<"{", "}">>
    /\ pc = "done" => returned = results

(* A returned record without a detail URL has "{}", and another has the    *)
(* specs of its page, one of them with a quotation mark in a value.        *)
C2_Witness ==
    /\ pc = "done"
    /\ \E i, j \in 1..Len(returned) :
          /\ returned[i].detail_page_url = <<>>
          /\ returned[i].detailed_specs = <<"{", "}">>
          /\ loads(returned[j].detailed_specs).ok
          /\ <<"Size">> \in Keys(loads(returned[j].detailed_specs).value)
          /\ Value(loads(returned[j].detailed_specs).value, <<"Size">>) = <<"6", "\"">>

(* The link is neither an absolute URL nor a //host reference.             *)
IsRelative(href) == ~HasScheme(href) /\ href[1] # "//"

Anchored(href, url) == StartsWith(url, BASE_URL)

(* The host a link or a URL names: after the scheme and "//", or after a   *)
(* leading "//"; "" when it names none.                                    *)
HostOf(href) ==
    IF Len(href) >= 3 /\ HasScheme(href) /\ href[2] = "//" THEN href[3]
    ELSE IF Len(href) >= 2 /\ href[1] = "//" THEN href[2]
    ELSE ""

(* What the URL of a non-empty link is: it has a scheme; a relative or     *)
(* root-relative link is under the base; a link that names a host keeps    *)
(* it.                                                                     *)
Resolved(href, url) ==
    /\ HasScheme(url)
    /\ IsRelative(href) => StartsWith(url, BASE_URL)
    /\ HostOf(href) # "" => HostOf(url) = HostOf(href)

(* Every candidate with a non-empty link found has a URL that Rule allows. *)
LinkRule(Rule(_, _)) ==
    Extracted =>
        IF cards # <<>>
        THEN \A i \in 1..Len(rows) :
                card_detail_href(cards[i]) # <<>> =>
                    Rule(card_detail_href(cards[i]), rows[i].detail_page_url)
        ELSE \A i \in 1..Len(rows) :
                /\ \E k \in 1..Len(PageNodes(html)) :
                       rows[i] = embedded_row(PageNodes(html)[k], BASE_URL)
                /\ \A k \in 1..Len(PageNodes(html)) :
                       (/\ rows[i] = embedded_row(PageNodes(html)[k], BASE_URL)
                        /\ embedded_detail_href(PageNodes(html)[k]) # <<>>)
                           => Rule(embedded_detail_href(PageNodes(html)[k]),
                                   rows[i].detail_page_url)

(* C3 as the specification states it: for every non-empty detail link      *)
(* found by either extractor, the detail_page_url is an absolute URL       *)
(* anchored to the base URL.                                               *)
C3_AsStated == LinkRule(Anchored)

(* C3: for every non-empty detail link found by either extractor, the      *)
(* detail_page_url begins with a scheme; a relative or root-relative link  *)
(* is anchored to the base URL, while a link that names its own host keeps *)
(* that host; and no record kept carries a bare relative path.             *)
C3_LinksResolved ==
    /\ LinkRule(Resolved)
    /\ \A i \in 1..Len(results) :
          results[i].detail_page_url = <<>> \/ HasScheme(results[i].detail_page_url)

(* A card with a relative link has it under the base, and a card with a    *)
(* link to another host keeps that host.                                   *)
C3_Witness ==
    /\ pc = "done"
    /\ \E i, j \in 1..Len(cards) :
          /\ card_detail_href(cards[i]) = <<"d", "/", "1">>
          /\ returned[i].detail_page_url = BASE_URL \o <<"d", "/", "1">>
          /\ card_detail_href(cards[j]) = <<"https:", "//", "other.com", "/", "d", "/", "3">>
          /\ returned[j].detail_page_url = <<"https:", "//", "other.com", "/", "d", "/", "3">>

C7_Records ==
    pc = "done" =>
        /\ html = None => returned = <<>>
        /\ Len(returned) = Len(rows)
        /\ \A i \in 1..Len(returned) :
              /\ \A f \in DOMAIN rows[i] : returned[i][f] = rows[i][f]
              /\ None \in PagesOf(i) => returned[i].detailed_specs = <<"{", "}">>

(* How far the run is: the steps before the loop, then two per candidate.  *)
Position ==
    CASE pc = "start"   -> 0
      [] pc = "fetched" -> 1
      [] pc = "located" -> 2
      [] pc = "loop"    -> 1 + 2 * idx
      [] pc = "attach"  -> 2 + 2 * idx
      [] pc = "done"    -> 4 + 2 * Len(rows)

(* After a fetch, whatever it returned, the run has a next step: the       *)
(* return of the empty sequence or the locator after the listing fetch,    *)
(* the attachment of the specs after a detail fetch that returned nothing, *)
(* and in the loop the next candidate or the return.                       *)
C7_Continues ==
    /\ pc = "fetched" => ENABLED (ReturnEmpty \/ LocateCards)
    /\ (pc = "attach" /\ detail_soup = None) => ENABLED AttachSpecs
    /\ pc = "loop" => ENABLED (KeepWithoutSpecs \/ FetchDetail \/ ReturnResults)

C7_Advances == Position' > Position /\ Position' <= 4 + 2 * Len(rows')

(* C7: a fetch that returns nothing never stops the run: every step moves  *)
(* the run forward towards its return, of which it is a bounded number of  *)
(* steps away, and after every fetch there is a next step; when the        *)
(* listing fetch returns nothing the run returns the empty sequence, and   *)
(* otherwise, whichever detail fetches return nothing, it returns one      *)
(* record per candidate in candidate order, the record of a candidate      *)
(* whose fetch returned nothing having the candidate's fields unchanged    *)
(* and the specs "{}".                                                     *)
C7_NeverAborts == [](C7_Records /\ C7_Continues) /\ [][C7_Advances]_vars

(* The first detail fetch returned nothing, the second a page with specs:  *)
(* both candidates are returned.                                           *)
C7_Witness ==
    /\ pc = "done"
    /\ Len(returned) = 2
    /\ PagesOf(1) = {None}
    /\ returned[1].detailed_specs = <<"{", "}">>
    /\ PagesOf(2) # {}
    /\ returned[2].detailed_specs # <<"{", "}">>

(* No detail link was found for candidate i.                               *)
NoLinkFound(i) ==
    IF cards # <<>> THEN card_detail_href(cards[i]) = <<>>
    ELSE \E k \in 1..Len(PageNodes(html)) :
            /\ rows[i] = embedded_row(PageNodes(html)[k], BASE_URL)
            /\ embedded_detail_href(PageNodes(html)[k]) = <<>>

(* C8: every candidate, from either extractor, for which no detail link    *)
(* was found is kept with an empty detail_page_url and the specs "{}",     *)
(* and no detail page is fetched for it.                                   *)
C8_MissingLinkKept ==
    Extracted =>
        /\ pc = "done" => Len(returned) = Len(rows)
        /\ \A i \in 1..Len(rows) :
              NoLinkFound(i) =>
                  /\ rows[i].detail_page_url = <<>>
                  /\ PagesOf(i) = {}
                  /\ i <= Len(results) => results[i].detailed_specs = <<"{", "}">>

(* C10: the first call is the one fetch of the listing; the detail fetches *)
(* are in candidate order, at most one per candidate and none repeated, so *)
(* at most 1 + N fetches for N candidates; and when a fetch is issued the  *)
(* record of every candidate fetched before is already kept, with the      *)
(* specs of its page.                                                      *)
C10_SequentialFetches ==
    /\ log # <<>> => log[1].op = "fetch_html" /\ log[1].cand = 0
    /\ \A k \in 2..Len(Fetches) : Fetches[k].cand \in 1..Len(rows)
    /\ \A j, k \in 1..Len(Fetches) : j < k => Fetches[j].cand < Fetches[k].cand
    /\ Len(Fetches) <= 1 + Len(rows)
    /\ \A k \in 2..Len(Fetches) :
          IF pc = "attach" /\ k = Len(Fetches)
          THEN Fetches[k].cand = idx /\ Len(results) = idx - 1
          ELSE /\ Fetches[k].cand <= Len(results)
               /\ results[Fetches[k].cand].detailed_specs
                     = json_dumps(IF Fetches[k].page = None THEN <<>>
                                  ELSE extract_detail_specs(Fetches[k].page))

(* Two candidates, the first fetch returning nothing: three fetches in     *)
(* all, the listing, candidate 1 and candidate 2.                          *)
C10_Witness ==
    /\ pc = "done"
    /\ Len(rows) = 2
    /\ Len(Fetches) = 3
    /\ Fetches[2].cand = 1
    /\ Fetches[2].page = None
    /\ Fetches[3].cand = 2

=============================================================================
